---- MODULE Spec2Model ----
(***************************************************************************)
(* Model of isReview.py: for each tab-separated input line (surname,       *)
(* title, year) the program searches PubMed by title and year, fetches the *)
(* first hit, parses authors and publication types out of the XML and      *)
(* prints the line extended by review / original / not_found, the          *)
(* "|"-joined warnings and a lookup URL.                                   *)
(*                                                                         *)
(* A Python str is modelled as a sequence of tokens.  A token is a TLA+    *)
(* string holding one character ("D", " ", "\t") or, for the program's     *)
(* fixed messages, one whole literal.  None is the one-token sequence      *)
(* <<"<None>">>, which no str of the model contains.                       *)
(***************************************************************************)
EXTENDS Integers, Sequences, FiniteSets, TLC

----------------------------------------------------------------------------
(* Bounds *)

\* number of lines the program reads from stdin in one run
MaxLines == 2
\* number of <Author> / <PublicationType> elements of a document when
\* determine_article_type is checked on its own
MaxAuthors == 2
MaxTypes == 2

----------------------------------------------------------------------------
(* Python values and str methods *)

None == <<"<None>">>
TAB == "\t"
Whitespace == {" ", TAB, "\n", "\r"}

\* truth value of a str-or-None in `if x:` / `if not x:`
Truthy(x) == x # None /\ x # <<>>

Range(s) == {s[i] : i \in 1..Len(s)}

UpperChars == <<"A","B","C","D","E","F","G","H","I","J","K","L","M",
                "N","O","P","Q","R","S","T","U","V","W","X","Y","Z">>
LowerChars == <<"a","b","c","d","e","f","g","h","i","j","k","l","m",
                "n","o","p","q","r","s","t","u","v","w","x","y","z">>

LowerChar(c) ==
    IF \E i \in 1..26 : UpperChars[i] = c
    THEN LowerChars[CHOOSE i \in 1..26 : UpperChars[i] = c]
    ELSE c

\* str.lower()
Lower(s) == [i \in 1..Len(s) |-> LowerChar(s[i])]

RECURSIVE LStrip(_)
LStrip(s) == IF s # <<>> /\ Head(s) \in Whitespace THEN LStrip(Tail(s)) ELSE s

RECURSIVE RStrip(_)
RStrip(s) ==
    IF s # <<>> /\ s[Len(s)] \in Whitespace
    THEN RStrip(SubSeq(s, 1, Len(s) - 1))
    ELSE s

\* str.strip()
Strip(s) == RStrip(LStrip(s))

\* str.split(sep) for a one-character sep: always at least one field
RECURSIVE Split(_, _)
Split(s, sep) ==
    IF \E i \in 1..Len(s) : s[i] = sep
    THEN LET i == CHOOSE j \in 1..Len(s) :
                      s[j] = sep /\ \A k \in 1..(j - 1) : s[k] # sep
         IN <<SubSeq(s, 1, i - 1)>> \o Split(SubSeq(s, i + 1, Len(s)), sep)
    ELSE <<s>>

\* sep.join(list)
RECURSIVE Join(_, _)
Join(list, sep) ==
    IF list = <<>> THEN <<>>
    ELSE IF Len(list) = 1 THEN list[1]
    ELSE list[1] \o <<sep>> \o Join(Tail(list), sep)

\* str.startswith(c) for a one-character c
StartsWith(s, c) == s # <<>> /\ s[1] = c

RECURSIVE Flatten(_)
Flatten(ss) == IF ss = <<>> THEN <<>> ELSE Head(ss) \o Flatten(Tail(ss))

----------------------------------------------------------------------------
(* String literals of the program *)

S_review == <<"r","e","v","i","e","w">>
S_original == <<"original">>
S_not_found == <<"not_found">>
W_MoreThanOne == <<"More than one result found. Using the first result.">>
W_NoResults == <<"No results found.">>
W_AuthorNotFound == <<"Specified author not found in the article.">>

----------------------------------------------------------------------------
(* The fetched document.  The response text is kept parsed:                *)
(*   kind "None"      no text (fetch_pubmed_data returned None)            *)
(*   kind "empty"     the empty text                                       *)
(*   kind "malformed" text ET.fromstring rejects                           *)
(*   kind "xml"       a well-formed document with its PubmedArticle nodes  *)
(* An Author entry is the text of its LastName, None when the LastName     *)
(* element has no text, NoLastName when the element is missing.  A         *)
(* PublicationType entry is its text, None when it has none.               *)

NoLastName == <<"<no LastName>">>

XmlNone == [kind |-> "None", articles |-> <<>>]
XmlEmpty == [kind |-> "empty", articles |-> <<>>]
XmlMalformed == [kind |-> "malformed", articles |-> <<>>]
Xml(arts) == [kind |-> "xml", articles |-> arts]

PubmedArticle(hasCit, hasArt, hasAL, authors, hasPTL, pubtypes) ==
    [citation |-> hasCit, article |-> hasArt,
     authorlist |-> hasAL, authors |-> authors,
     pubtypelist |-> hasPTL, pubtypes |-> pubtypes]

FullArticle(authors, pubtypes) ==
    PubmedArticle(TRUE, TRUE, TRUE, authors, TRUE, pubtypes)

XmlTruthy(x) == x.kind \notin {"None", "empty"}

\* lines 146-149: the LastName texts of the Author elements that have one
RECURSIVE AuthorTexts(_)
AuthorTexts(entries) ==
    IF entries = <<>> THEN <<>>
    ELSE (IF Head(entries) # NoLastName THEN <<Head(entries)>> ELSE <<>>)
         \o AuthorTexts(Tail(entries))

\* lines 154-156: the truthy PublicationType texts
RECURSIVE PubTypeTexts(_)
PubTypeTexts(entries) ==
    IF entries = <<>> THEN <<>>
    ELSE (IF Truthy(Head(entries)) THEN <<Head(entries)>> ELSE <<>>)
         \o PubTypeTexts(Tail(entries))

ArticleAuthors(a) ==
    IF a.citation /\ a.article /\ a.authorlist THEN AuthorTexts(a.authors)
    ELSE <<>>

ArticlePubTypes(a) ==
    IF a.citation /\ a.article /\ a.pubtypelist THEN PubTypeTexts(a.pubtypes)
    ELSE <<>>

\* get_authors_and_pubtypes: exc is "ParseError" when ET.fromstring raises
get_authors_and_pubtypes(article_xml) ==
    IF article_xml.kind # "xml"
    THEN [exc |-> "ParseError", authors |-> <<>>, pubtypes |-> <<>>]
    ELSE [exc |-> "",
          authors |-> Flatten([i \in 1..Len(article_xml.articles) |->
                                  ArticleAuthors(article_xml.articles[i])]),
          pubtypes |-> Flatten([i \in 1..Len(article_xml.articles) |->
                                  ArticlePubTypes(article_xml.articles[i])])]

\* Classify with the surnames lower-cased but not trimmed
Classify_NoStrip(authors, pubtypes, author_surname) ==
    LET lower_surname == Lower(author_surname)
        lower_authors == [i \in 1..Len(authors) |-> Lower(authors[i])]
    IN IF \E i \in 1..Len(authors) : authors[i] = None
       THEN [exc |-> "AttributeError", type |-> None, warning |-> None]
       ELSE IF lower_surname \notin Range(lower_authors)
       THEN [exc |-> "", type |-> S_not_found, warning |-> W_AuthorNotFound]
       ELSE IF \E i \in 1..Len(pubtypes) : Lower(pubtypes[i]) = S_review
       THEN [exc |-> "", type |-> S_review, warning |-> <<>>]
       ELSE [exc |-> "", type |-> S_original, warning |-> <<>>]

\* Classify with the publication types tested before the author
Classify_ReviewFirst(authors, pubtypes, author_surname) ==
    LET lower_surname == Lower(Strip(author_surname))
        lower_authors == [i \in 1..Len(authors) |-> Lower(Strip(authors[i]))]
    IN IF \E i \in 1..Len(authors) : authors[i] = None
       THEN [exc |-> "AttributeError", type |-> None, warning |-> None]
       ELSE IF \E i \in 1..Len(pubtypes) : Lower(pubtypes[i]) = S_review
       THEN [exc |-> "", type |-> S_review, warning |-> <<>>]
       ELSE IF lower_surname \notin Range(lower_authors)
       THEN [exc |-> "", type |-> S_not_found, warning |-> W_AuthorNotFound]
       ELSE [exc |-> "", type |-> S_original, warning |-> <<>>]

\* lines 173-183 of determine_article_type, on the parsed lists
Classify(authors, pubtypes, author_surname) ==
    LET lower_surname == Lower(Strip(author_surname))
        lower_authors == [i \in 1..Len(authors) |-> Lower(Strip(authors[i]))]
    IN IF \E i \in 1..Len(authors) : authors[i] = None
       THEN [exc |-> "AttributeError", type |-> None, warning |-> None]
       ELSE IF lower_surname \notin Range(lower_authors)
       THEN [exc |-> "", type |-> S_not_found, warning |-> W_AuthorNotFound]
       ELSE IF \E i \in 1..Len(pubtypes) : Lower(pubtypes[i]) = S_review
       THEN [exc |-> "", type |-> S_review, warning |-> <<>>]
       ELSE [exc |-> "", type |-> S_original, warning |-> <<>>]

determine_article_type(pmid, xml_data, author_surname) ==
    LET p == get_authors_and_pubtypes(xml_data)
    IN IF p.exc # ""
       THEN [exc |-> p.exc, type |-> None, warning |-> None]
       ELSE Classify(p.authors, p.pubtypes, author_surname)

----------------------------------------------------------------------------
(* Inputs: command line, stdin lines, and what the service answers *)

N_Doe == <<"D","o","e">>
N_doe == <<"d","o","e">>
N_DOE == <<"D","O","E">>
N_Lee == <<"L","e","e">>
N_Do == <<"D","o">>
T_OnX == <<"O","n"," ","X">>
Y_2020 == <<"2","0","2","0">>

Line3(s, t, y) == s \o <<TAB>> \o t \o <<TAB>> \o y
Line2(t, y) == t \o <<TAB>> \o y

\* raw stdin lines, without the line terminator
Lines ==
    { Line3(N_Doe, T_OnX, Y_2020),
      <<" ">> \o Line3(N_doe, T_OnX, Y_2020) \o <<TAB>>,
      Line2(T_OnX, Y_2020),
      Line2(T_OnX, Y_2020) \o <<TAB>>,
      <<"X">>,
      <<" ", TAB>>,
      <<"#", "x">>,
      <<" ", "#", "x">> }

\* values of args.author: absent, empty, and a surname
AuthorArgs == { None, <<>>, N_DOE }

SW_1 == <<"svc warning 1">>
SW_2 == <<"svc warning 2">>

Id1 == <<"101">>
Id2 == <<"102">>
Id3 == <<"103">>
Id4 == <<"104">>
Id5 == <<"105">>
Id6 == <<"106">>

PT_Review == <<"R","e","v","i","e","w">>
PT_REVIEW == <<"R","E","V","I","E","W">>
PT_ReviewPad == <<"R","e","v","i","e","w"," ">>
PT_Journal == <<"J","o","u","r","n","a","l">>

\* the remote database: the document efetch returns for an identifier
EfetchText(id) ==
    CASE id = Id1 -> Xml(<<FullArticle(<<N_Lee \o <<"s">>, <<" ">> \o N_Doe \o <<" ">>>>,
                                       <<PT_Journal, PT_Review>>)>>)
      [] id = Id2 -> Xml(<<FullArticle(<<N_Lee>>, <<PT_REVIEW>>)>>)
      [] id = Id3 -> Xml(<<FullArticle(<<N_Doe, None>>, <<PT_Journal>>)>>)
      [] id = Id4 -> XmlEmpty
      [] id = Id5 -> XmlMalformed
      [] id = Id6 -> Xml(<<FullArticle(<<NoLastName, N_DOE, N_Lee>>,
                                       <<PT_ReviewPad, None>>)>>)
      [] OTHER -> Xml(<<>>)

\* the (idlist, warnings) pairs an esearch answer carries
SearchResults ==
    { [ids |-> <<>>, warnings |-> <<SW_1>>],
      [ids |-> <<Id1>>, warnings |-> <<>>],
      [ids |-> <<Id2, Id1>>, warnings |-> <<SW_1, SW_2>>],
      [ids |-> <<Id3>>, warnings |-> <<>>],
      [ids |-> <<Id4>>, warnings |-> <<SW_2>>],
      [ids |-> <<Id5>>, warnings |-> <<>>],
      [ids |-> <<Id6>>, warnings |-> <<>>] }

StatusCodes == {200, 503}

\* requests.Response.raise_for_status raises HTTPError
RaisesForStatus(status) == status >= 400 /\ status < 600

----------------------------------------------------------------------------
(* State *)

VARIABLES
    args_author,    \* args.author
    lines_read,     \* the raw lines the loop has taken from stdin so far
    pc,             \* "loop", "esearch", "efetch", "determine", "returned",
                    \* "exit" (end of input) or "aborted" (uncaught exception)
    error,          \* the uncaught exception, "" while there is none
    author_surname, title, pub_year,    \* main's locals
    pmid_list,      \* idlist of the last esearch answer
    pmid, xml_data, \* results of fetch_pubmed_data
    warnings,       \* the warning list (lines 88-217)
    art_type, warnings2,
    stdout,         \* the printed rows
    calls,          \* the requests sent, in order
    resps           \* the answers received: resps[k] answers calls[k]

vars == <<args_author, lines_read, pc, error, author_surname, title, pub_year,
          pmid_list, pmid, xml_data, warnings, art_type, warnings2,
          stdout, calls, resps>>

locals == <<author_surname, title, pub_year>>
results == <<pmid_list, pmid, xml_data, warnings, art_type, warnings2>>

----------------------------------------------------------------------------
(* main and fetch_pubmed_data *)

\* line 64
Query(t, y) == t \o <<"[Title] AND ">> \o y \o <<"[dp]">>

\* Row with the warnings and the classification in each other's place
Row_WarningsFirst(surname, t, y, type, warningstr) ==
    Join(<<surname, t, y, warningstr, type,
           <<"https://pubmed.ncbi.nlm.nih.gov/?term=">> \o t \o <<"&sort=date">>>>,
         TAB)

\* line 225: the printed row
Row(surname, t, y, type, warningstr) ==
    Join(<<surname, t, y, type, warningstr,
           <<"https://pubmed.ncbi.nlm.nih.gov/?term=">> \o t \o <<"&sort=date">>>>,
         TAB)

\* lines 199-203: the number of fields the unpacking accepts
ExpectedFields == IF Truthy(args_author) THEN 2 ELSE 3

\* WithAdvisories without the advisory for an empty result
WithAdvisories_NoEmptyAdvisory(idlist, svc) ==
    svc \o (IF Len(idlist) > 1 THEN <<W_MoreThanOne>> ELSE <<>>)

\* lines 93-98: the advisories added to the service's warnings
WithAdvisories(idlist, svc) ==
    (svc \o (IF Len(idlist) > 1 THEN <<W_MoreThanOne>> ELSE <<>>))
        \o (IF Len(idlist) = 0 THEN <<W_NoResults>> ELSE <<>>)

Init ==
    /\ args_author \in AuthorArgs
    /\ lines_read = <<>>
    /\ pc = "loop"
    /\ error = ""
    /\ author_surname = None /\ title = None /\ pub_year = None
    /\ pmid_list = <<>> /\ pmid = None /\ xml_data = XmlNone
    /\ warnings = <<>> /\ art_type = None /\ warnings2 = None
    /\ stdout = <<>> /\ calls = <<>> /\ resps = <<>>

\* lines 192-195: a blank or comment line is skipped
SkipLine(raw) ==
    LET line == Strip(raw) IN
    /\ pc = "loop" /\ Len(lines_read) < MaxLines
    /\ line = <<>> \/ StartsWith(line, "#")
    /\ lines_read' = Append(lines_read, raw)
    /\ UNCHANGED <<args_author, pc, error, locals, results, stdout, calls, resps>>

\* BadLine with the exception swallowed: the loop goes on to the next line
BadLine_Skips(raw) ==
    LET line == Strip(raw)
        parts == Split(line, TAB) IN
    /\ pc = "loop" /\ Len(lines_read) < MaxLines
    /\ ~(line = <<>> \/ StartsWith(line, "#"))
    /\ Len(parts) # ExpectedFields
    /\ lines_read' = Append(lines_read, raw)
    /\ author_surname' = IF Truthy(args_author) THEN args_author ELSE author_surname
    /\ UNCHANGED <<args_author, pc, error, title, pub_year, results, stdout, calls, resps>>

\* lines 197-207: the unpacking raises ValueError, which main re-raises
BadLine(raw) ==
    LET line == Strip(raw)
        parts == Split(line, TAB) IN
    /\ pc = "loop" /\ Len(lines_read) < MaxLines
    /\ ~(line = <<>> \/ StartsWith(line, "#"))
    /\ Len(parts) # ExpectedFields
    /\ lines_read' = Append(lines_read, raw)
    /\ author_surname' = IF Truthy(args_author) THEN args_author ELSE author_surname
    /\ pc' = "aborted" /\ error' = "ValueError"
    /\ UNCHANGED <<args_author, title, pub_year, results, stdout, calls, resps>>

\* ReadLine with the surname taken from the line whatever args.author is
ReadLine_IgnoresOverride(raw) ==
    LET line == Strip(raw)
        parts == Split(line, TAB) IN
    /\ pc = "loop" /\ Len(lines_read) < MaxLines
    /\ ~(line = <<>> \/ StartsWith(line, "#"))
    /\ Len(parts) = ExpectedFields
    /\ lines_read' = Append(lines_read, raw)
    /\ author_surname' = parts[1]
    /\ title' = parts[Len(parts) - 1] /\ pub_year' = parts[Len(parts)]
    /\ calls' = Append(calls, [op |-> "esearch", arg |-> Query(title', pub_year')])
    /\ pc' = "esearch"
    /\ UNCHANGED <<args_author, error, results, stdout, resps>>

\* lines 197-203, 211, 57-73: the line is unpacked and the esearch request sent
ReadLine(raw) ==
    LET line == Strip(raw)
        parts == Split(line, TAB) IN
    /\ pc = "loop" /\ Len(lines_read) < MaxLines
    /\ ~(line = <<>> \/ StartsWith(line, "#"))
    /\ Len(parts) = ExpectedFields
    /\ lines_read' = Append(lines_read, raw)
    /\ IF Truthy(args_author)
       THEN /\ author_surname' = args_author
            /\ title' = parts[1] /\ pub_year' = parts[2]
       ELSE /\ author_surname' = parts[1]
            /\ title' = parts[2] /\ pub_year' = parts[3]
    /\ calls' = Append(calls, [op |-> "esearch", arg |-> Query(title', pub_year')])
    /\ pc' = "esearch"
    /\ UNCHANGED <<args_author, error, results, stdout, resps>>

\* line 192: stdin is exhausted
EndOfInput ==
    /\ pc = "loop"
    /\ pc' = "exit"
    /\ UNCHANGED <<args_author, lines_read, error, locals, results, stdout, calls, resps>>

\* line 82: the esearch answer has an error status
EsearchFails(status) ==
    /\ pc = "esearch"
    /\ RaisesForStatus(status)
    /\ resps' = Append(resps, [status |-> status, ids |-> <<>>, warnings |-> <<>>,
                               text |-> XmlNone])
    /\ pc' = "aborted" /\ error' = "HTTPError"
    /\ UNCHANGED <<args_author, lines_read, locals, results, stdout, calls>>

\* EsearchEmpty going on to the next line without printing a row
EsearchEmpty_NoRow(status, res) ==
    /\ pc = "esearch"
    /\ ~RaisesForStatus(status)
    /\ res.ids = <<>>
    /\ resps' = Append(resps, [status |-> status, ids |-> res.ids,
                               warnings |-> res.warnings, text |-> XmlNone])
    /\ pmid_list' = res.ids
    /\ warnings' = WithAdvisories(res.ids, res.warnings)
    /\ pmid' = None /\ xml_data' = XmlNone
    /\ art_type' = S_not_found
    /\ pc' = "loop"
    /\ UNCHANGED <<args_author, lines_read, error, locals, warnings2, stdout, calls>>

\* lines 82-101, 211-225: no identifier, the row is printed as not_found
EsearchEmpty(status, res) ==
    /\ pc = "esearch"
    /\ ~RaisesForStatus(status)
    /\ res.ids = <<>>
    /\ resps' = Append(resps, [status |-> status, ids |-> res.ids,
                               warnings |-> res.warnings, text |-> XmlNone])
    /\ pmid_list' = res.ids
    /\ warnings' = WithAdvisories(res.ids, res.warnings)
    /\ pmid' = None /\ xml_data' = XmlNone
    /\ art_type' = S_not_found
    /\ stdout' = Append(stdout, Row(author_surname, title, pub_year, art_type',
                                    Join(warnings', "|")))
    /\ pc' = "loop"
    /\ UNCHANGED <<args_author, lines_read, error, locals, warnings2, calls>>

\* EsearchFound fetching the last identifier instead of the first
EsearchFound_LastId(status, res) ==
    /\ pc = "esearch"
    /\ ~RaisesForStatus(status)
    /\ res.ids # <<>>
    /\ resps' = Append(resps, [status |-> status, ids |-> res.ids,
                               warnings |-> res.warnings, text |-> XmlNone])
    /\ pmid_list' = res.ids
    /\ warnings' = WithAdvisories(res.ids, res.warnings)
    /\ pmid' = res.ids[Len(res.ids)]
    /\ calls' = Append(calls, [op |-> "efetch", arg |-> pmid'])
    /\ pc' = "efetch"
    /\ UNCHANGED <<args_author, lines_read, error, locals, xml_data, art_type,
                   warnings2, stdout>>

\* lines 82-112: identifiers found, the efetch request for the first is sent
EsearchFound(status, res) ==
    /\ pc = "esearch"
    /\ ~RaisesForStatus(status)
    /\ res.ids # <<>>
    /\ resps' = Append(resps, [status |-> status, ids |-> res.ids,
                               warnings |-> res.warnings, text |-> XmlNone])
    /\ pmid_list' = res.ids
    /\ warnings' = WithAdvisories(res.ids, res.warnings)
    /\ pmid' = res.ids[1]
    /\ calls' = Append(calls, [op |-> "efetch", arg |-> pmid'])
    /\ pc' = "efetch"
    /\ UNCHANGED <<args_author, lines_read, error, locals, xml_data, art_type,
                   warnings2, stdout>>

\* EfetchFails sending the request again instead of raising
EfetchFails_Retries(status) ==
    /\ pc = "efetch"
    /\ RaisesForStatus(status)
    /\ Len(calls) < 2 * MaxLines
    /\ resps' = Append(resps, [status |-> status, ids |-> <<>>, warnings |-> <<>>,
                               text |-> XmlNone])
    /\ calls' = Append(calls, [op |-> "efetch", arg |-> pmid])
    /\ UNCHANGED <<args_author, lines_read, pc, error, locals, results, stdout>>

\* line 113: the efetch answer has an error status
EfetchFails(status) ==
    /\ pc = "efetch"
    /\ RaisesForStatus(status)
    /\ resps' = Append(resps, [status |-> status, ids |-> <<>>, warnings |-> <<>>,
                               text |-> XmlNone])
    /\ pc' = "aborted" /\ error' = "HTTPError"
    /\ UNCHANGED <<args_author, lines_read, locals, results, stdout, calls>>

\* lines 113-115, 211-213, 218-225: an empty document, printed as not_found
EfetchNoDocument(status) ==
    LET text == EfetchText(calls[Len(calls)].arg) IN
    /\ pc = "efetch"
    /\ ~RaisesForStatus(status)
    /\ ~(Truthy(pmid) /\ XmlTruthy(text))
    /\ resps' = Append(resps, [status |-> status, ids |-> <<>>, warnings |-> <<>>,
                               text |-> text])
    /\ xml_data' = text
    /\ art_type' = S_not_found
    /\ stdout' = Append(stdout, Row(author_surname, title, pub_year, art_type',
                                    Join(warnings, "|")))
    /\ pc' = "loop"
    /\ UNCHANGED <<args_author, lines_read, error, locals, pmid_list, pmid,
                   warnings, warnings2, calls>>

\* lines 113-115, 215: determine_article_type raises
EfetchRaises(status) ==
    LET text == EfetchText(calls[Len(calls)].arg)
        r == determine_article_type(pmid, text, author_surname) IN
    /\ pc = "efetch"
    /\ ~RaisesForStatus(status)
    /\ Truthy(pmid) /\ XmlTruthy(text)
    /\ r.exc # ""
    /\ resps' = Append(resps, [status |-> status, ids |-> <<>>, warnings |-> <<>>,
                               text |-> text])
    /\ xml_data' = text
    /\ pc' = "aborted" /\ error' = r.exc
    /\ UNCHANGED <<args_author, lines_read, locals, pmid_list, pmid, warnings,
                   art_type, warnings2, stdout, calls>>

\* lines 113-115, 215-225: the document is classified and the row printed
EfetchClassified(status) ==
    LET text == EfetchText(calls[Len(calls)].arg)
        r == determine_article_type(pmid, text, author_surname) IN
    /\ pc = "efetch"
    /\ ~RaisesForStatus(status)
    /\ Truthy(pmid) /\ XmlTruthy(text)
    /\ r.exc = ""
    /\ resps' = Append(resps, [status |-> status, ids |-> <<>>, warnings |-> <<>>,
                               text |-> text])
    /\ xml_data' = text
    /\ art_type' = r.type /\ warnings2' = r.warning
    /\ warnings' = IF Truthy(warnings2') THEN Append(warnings, warnings2') ELSE warnings
    /\ stdout' = Append(stdout, Row(author_surname, title, pub_year, art_type',
                                    Join(warnings', "|")))
    /\ pc' = "loop"
    /\ UNCHANGED <<args_author, lines_read, error, locals, pmid_list, pmid, calls>>

Next ==
    \/ \E raw \in Lines : SkipLine(raw)
    \/ \E raw \in Lines : BadLine(raw)
    \/ \E raw \in Lines : ReadLine(raw)
    \/ EndOfInput
    \/ \E s \in StatusCodes : EsearchFails(s)
    \/ \E s \in StatusCodes, res \in SearchResults : EsearchEmpty(s, res)
    \/ \E s \in StatusCodes, res \in SearchResults : EsearchFound(s, res)
    \/ \E s \in StatusCodes : EfetchFails(s)
    \/ \E s \in StatusCodes : EfetchNoDocument(s)
    \/ \E s \in StatusCodes : EfetchRaises(s)
    \/ \E s \in StatusCodes : EfetchClassified(s)

Spec == Init /\ [][Next]_vars

----------------------------------------------------------------------------
(* determine_article_type on its own, over every small document *)

AuthorEntries == { N_Doe, <<" ">> \o N_doe \o <<" ">>, N_Lee, None, NoLastName }
TypeEntries == { PT_REVIEW, PT_ReviewPad, PT_Journal, None }
Targets == { N_Doe, <<TAB>> \o N_DOE, N_Do, <<>> }

SeqsUpTo(S, n) == UNION { [1..k -> S] : k \in 0..n }

StructuralDocs ==
    { Xml(<<>>),
      Xml(<<PubmedArticle(FALSE, TRUE, TRUE, <<N_Doe>>, TRUE, <<PT_REVIEW>>)>>),
      Xml(<<PubmedArticle(TRUE, FALSE, TRUE, <<N_Doe>>, TRUE, <<PT_REVIEW>>)>>),
      Xml(<<PubmedArticle(TRUE, TRUE, FALSE, <<N_Doe>>, TRUE, <<PT_REVIEW>>)>>),
      Xml(<<PubmedArticle(TRUE, TRUE, TRUE, <<N_Doe>>, FALSE, <<PT_REVIEW>>)>>),
      Xml(<<FullArticle(<<N_Lee>>, <<PT_Journal>>), FullArticle(<<N_Doe>>, <<PT_REVIEW>>)>>),
      XmlMalformed }

ClassDocs ==
    { Xml(<<FullArticle(a, t)>>) :
          a \in SeqsUpTo(AuthorEntries, MaxAuthors), t \in SeqsUpTo(TypeEntries, MaxTypes) }
    \cup StructuralDocs

ClassInit ==
    /\ args_author = None
    /\ lines_read = <<>>
    /\ pc = "determine"
    /\ error = ""
    /\ author_surname \in Targets /\ title = None /\ pub_year = None
    /\ pmid_list = <<Id1>> /\ pmid = Id1 /\ xml_data \in ClassDocs
    /\ warnings = <<>> /\ art_type = None /\ warnings2 = None
    /\ stdout = <<>> /\ calls = <<>> /\ resps = <<>>

\* line 215: the call returns
DetermineReturns ==
    LET r == determine_article_type(pmid, xml_data, author_surname) IN
    /\ pc = "determine"
    /\ r.exc = ""
    /\ art_type' = r.type /\ warnings2' = r.warning
    /\ pc' = "returned"
    /\ UNCHANGED <<args_author, lines_read, error, locals, pmid_list, pmid,
                   xml_data, warnings, stdout, calls, resps>>

\* line 215: the call raises
DetermineRaises ==
    LET r == determine_article_type(pmid, xml_data, author_surname) IN
    /\ pc = "determine"
    /\ r.exc # ""
    /\ pc' = "aborted" /\ error' = r.exc
    /\ UNCHANGED <<args_author, lines_read, locals, results, stdout, calls, resps>>

ClassNext == DetermineReturns \/ DetermineRaises

ClassSpec == ClassInit /\ [][ClassNext]_vars

----------------------------------------------------------------------------
(* Reading the history: records, their calls, answers and rows *)

Labels == { <<"r","e","v","i","e","w">>, <<"original">>, <<"not_found">> }

Reverse(q) == [i \in 1..Len(q) |-> q[Len(q) + 1 - i]]

\* what the loop does with a line, after it has stripped it
Skipped(raw) == Strip(raw) = <<>> \/ StartsWith(Strip(raw), "#")
WellFormed(raw) == ~Skipped(raw) /\ Len(Split(Strip(raw), TAB)) = ExpectedFields
Malformed(raw) == ~Skipped(raw) /\ Len(Split(Strip(raw), TAB)) # ExpectedFields

\* the same line judged by the fields of the line as it stands in the input
MalformedAsWritten(raw) == ~Skipped(raw) /\ Len(Split(raw, TAB)) # ExpectedFields

\* the well-formed lines read so far: record k is AcceptedLines[k]
AcceptedLines == SelectSeq(lines_read, WellFormed)

SearchCalls == { i \in 1..Len(calls) : calls[i].op = "esearch" }
NumSearches == Cardinality(SearchCalls)
\* position in calls of the search of record k
SearchIndex(k) ==
    CHOOSE i \in SearchCalls : Cardinality({ j \in SearchCalls : j <= i }) = k

Answered(i) == i <= Len(resps)
Succeeded(i) == Answered(i) /\ ~(resps[i].status >= 400 /\ resps[i].status < 600)

\* the efetch calls sent for record k
FetchCalls(k) ==
    { i \in 1..Len(calls) :
        /\ calls[i].op = "efetch"
        /\ i > SearchIndex(k)
        /\ \A j \in SearchCalls : j > SearchIndex(k) => i < j }

Fields(row) == Split(row, TAB)

\* the fields of record k's line
LineFields(k) == Split(Strip(AcceptedLines[k]), TAB)
TitleOf(k) == LineFields(k)[Len(LineFields(k)) - 1]
YearOf(k) == LineFields(k)[Len(LineFields(k))]

\* the document record k was classified from, XmlNone when there was none
DocumentOf(k) ==
    LET si == SearchIndex(k) IN
    IF Succeeded(si) /\ resps[si].ids # <<>> /\ Succeeded(si + 1)
    THEN resps[si + 1].text
    ELSE XmlNone

----------------------------------------------------------------------------
(* Claims *)

\* C1: a record whose search returns no identifier is never fetched, and its
\* row has the classification not_found and "No results found." among its
\* warnings.
C1_EmptySearchIsNotFound ==
    \A k \in 1..NumSearches :
        LET si == SearchIndex(k) IN
        (Succeeded(si) /\ resps[si].ids = <<>>) =>
            /\ FetchCalls(k) = {}
            /\ Len(stdout) >= k
            /\ Fields(stdout[k])[4] = <<"not_found">>
            /\ <<"No results found.">> \in Range(Split(Fields(stdout[k])[5], "|"))

C1_Witness ==
    /\ NumSearches = 2 /\ Len(stdout) = 1
    /\ resps[1].ids = <<>> /\ resps[1].warnings = <<SW_1>>
    /\ resps[1].status = 200

\* C2: a record whose search returns two or more identifiers has the
\* more-than-one advisory in its warning list when fetch is invoked, is
\* fetched exactly once and with the first identifier only, and is classified
\* from that fetched document.  The advisory is the parameter.
C2_FirstOfMany(advisory) ==
    /\ (pc = "efetch" /\ Len(pmid_list) > 1) => advisory \in Range(warnings)
    /\ \A k \in 1..NumSearches :
        LET si == SearchIndex(k) IN
        (Succeeded(si) /\ Len(resps[si].ids) > 1) =>
            /\ Cardinality(FetchCalls(k)) = 1
            /\ \A i \in FetchCalls(k) : calls[i].arg = resps[si].ids[1]
            /\ Len(stdout) >= k =>
                /\ advisory \in Range(Split(Fields(stdout[k])[5], "|"))
                /\ Fields(stdout[k])[4] =
                     IF XmlTruthy(DocumentOf(k))
                     THEN determine_article_type(resps[si].ids[1], DocumentOf(k),
                                                 Fields(stdout[k])[1]).type
                     ELSE <<"not_found">>

\* C2 as stated: the advisory in the list is the text with the "Warning: " prefix
C2_Original ==
    C2_FirstOfMany(<<"Warning: More than one result found. Using the first result.">>)

\* C2 amended: the advisory in the list is the text without the prefix
C2_Amended ==
    C2_FirstOfMany(<<"More than one result found. Using the first result.">>)

C2_Witness ==
    /\ Len(stdout) = 1 /\ pc = "loop"
    /\ resps[1].ids = <<Id2, Id1>>
    /\ calls[2] = [op |-> "efetch", arg |-> Id2]
    /\ Fields(stdout[1])[4] = <<"not_found">>

\* C3: determine_article_type returns not_found with the author warning when
\* the trimmed, lower-cased target equals no trimmed, lower-cased author;
\* otherwise review without warning when some type is "review" in any casing;
\* otherwise original without warning; reordering or repeating the authors or
\* the types changes nothing.
C3_Classification ==
    LET p == get_authors_and_pubtypes(xml_data)
        target == Lower(Strip(author_surname))
        present == \E a \in Range(p.authors) : Lower(Strip(a)) = target
        isReview == \E t \in Range(p.pubtypes) : Lower(t) = <<"r","e","v","i","e","w">>
        again(a, t) == Classify(a, t, author_surname)
    IN /\ (pc = "aborted" /\ error = "AttributeError") => None \in Range(p.authors)
       /\ pc = "returned" =>
            /\ ~present =>
                 /\ art_type = <<"not_found">>
                 /\ warnings2 = <<"Specified author not found in the article.">>
            /\ (present /\ isReview) =>
                 art_type = <<"r","e","v","i","e","w">> /\ warnings2 = <<>>
            /\ (present /\ ~isReview) =>
                 art_type = <<"original">> /\ warnings2 = <<>>
            /\ \A q \in { <<Reverse(p.authors), Reverse(p.pubtypes)>>,
                          <<p.authors \o p.authors, p.pubtypes \o Reverse(p.pubtypes)>> } :
                 /\ again(q[1], q[2]).type = art_type
                 /\ again(q[1], q[2]).warning = warnings2

\* the match needs both the trimming and the lower-casing, and a repeated type
C3_Witness ==
    /\ pc = "returned"
    /\ author_surname = <<TAB>> \o N_DOE
    /\ xml_data = Xml(<<FullArticle(<<N_Lee, <<" ">> \o N_doe \o <<" ">>>>,
                                    <<PT_REVIEW, PT_REVIEW>>)>>)
    /\ art_type = S_review

\* C4: a row is not_found exactly when no document was obtained for the
\* record (no identifier, or an empty fetch answer) or the target surname
\* equals no parsed author after trimming and lower-casing; every other row
\* is review or original.
C4_NotFoundIff ==
    \A k \in 1..Len(stdout) :
        LET doc == DocumentOf(k)
            target == IF Truthy(args_author) THEN args_author ELSE LineFields(k)[1]
            authors == get_authors_and_pubtypes(doc).authors
            noRecord == resps[SearchIndex(k)].ids = <<>> \/ ~XmlTruthy(doc)
            absent == \A a \in Range(authors) :
                          a = None \/ Lower(Strip(a)) # Lower(Strip(target))
            label == Fields(stdout[k])[4]
        IN /\ label \in Labels
           /\ label = <<"not_found">> <=> (noRecord \/ absent)

\* a row that is not_found because the author is absent, then a review row
C4_Witness ==
    /\ Len(stdout) = 2
    /\ Fields(stdout[1])[4] = <<"not_found">>
    /\ resps[1].ids = <<Id2, Id1>>
    /\ Fields(stdout[2])[4] = <<"r","e","v","i","e","w">>

\* What holds of rows and searches whether or not the run goes on (C5): a
\* search is sent for each well-formed line and for no other, in input order;
\* row k carries the title and year of the k-th well-formed line; and while a
\* record's search or fetch is outstanding, the rows of all earlier records
\* are written and its own is not.
C5_InOrder ==
    /\ NumSearches = Len(AcceptedLines)
    /\ Len(stdout) <= NumSearches
    /\ \A k \in 1..NumSearches :
         calls[SearchIndex(k)].arg = Query(TitleOf(k), YearOf(k))
    /\ \A k \in 1..Len(stdout) :
         /\ Fields(stdout[k])[2] = TitleOf(k)
         /\ Fields(stdout[k])[3] = YearOf(k)
    /\ pc \in {"esearch", "efetch"} => Len(stdout) = NumSearches - 1

\* C5 as stated: every well-formed line gets its row, so when the run has
\* ended there are as many rows as well-formed lines were read.
C5_Original ==
    /\ C5_InOrder
    /\ pc \in {"exit", "aborted"} => Len(stdout) = Len(AcceptedLines)

\* C5 amended: a well-formed line gets exactly one row unless the run aborts
\* while it is being processed (an error status of search or fetch, or an
\* exception while the document is parsed and classified); then it gets none.
C5_Amended ==
    /\ C5_InOrder
    /\ pc \in {"loop", "exit"} => Len(stdout) = Len(AcceptedLines)
    /\ pc = "aborted" =>
         Len(stdout) = IF error = "ValueError" THEN Len(AcceptedLines)
                       ELSE Len(AcceptedLines) - 1

\* two rows of two different lines, in input order, and the input exhausted
C5_Witness ==
    /\ pc = "exit" /\ Len(stdout) = 2 /\ Len(lines_read) = 2
    /\ Fields(stdout[1])[1] # Fields(stdout[2])[1]

\* C6: a line with the wrong number of fields is the last line read: the run
\* is aborted by ValueError, no search was sent for the line, and the rows
\* are those of the well-formed lines before it.  The test for a wrong
\* number of fields is made on the line as written or as stripped.
C6_AbortsOn(asWritten) ==
    \A i \in 1..Len(lines_read) :
        (IF asWritten THEN MalformedAsWritten(lines_read[i])
                      ELSE Malformed(lines_read[i])) =>
            /\ i = Len(lines_read)
            /\ pc = "aborted" /\ error = "ValueError"
            /\ NumSearches = Len(SelectSeq(SubSeq(lines_read, 1, i - 1), WellFormed))
            /\ Len(stdout) = NumSearches

C7_TransportFailureAborts ==
    \A i \in 1..Len(resps) :
        (resps[i].status >= 400 /\ resps[i].status < 600) =>
            /\ i = Len(resps) /\ i = Len(calls)
            /\ pc = "aborted" /\ error = "HTTPError"
            /\ Len(stdout) = NumSearches - 1
            /\ Len(AcceptedLines) = NumSearches
            /\ WellFormed(lines_read[Len(lines_read)])

\* a fetch fails after an earlier record was printed
C7_Witness ==
    /\ pc = "aborted" /\ error = "HTTPError"
    /\ Len(stdout) = 1
    /\ calls[Len(calls)].op = "efetch"

\* the warnings record k accumulates: the service's, then the advisory about
\* the number of results, then the classifier's
ExpectedWarnings(k) ==
    LET r == resps[SearchIndex(k)] IN
    (r.warnings
       \o (IF Len(r.ids) > 1
           THEN <<<<"More than one result found. Using the first result.">>>>
           ELSE IF r.ids = <<>> THEN <<<<"No results found.">>>> ELSE <<>>))
       \o (IF XmlTruthy(DocumentOf(k)) /\ Fields(stdout[k])[4] = <<"not_found">>
           THEN <<<<"Specified author not found in the article.">>>>
           ELSE <<>>)

FirstAsWritten(raw) == Split(raw, TAB)[1]
FirstAfterStrip(raw) == Split(Strip(raw), TAB)[1]

\* C9: with an author override the override, and without one the first field
\* of the line, is the surname the record is classified with and the surname
\* field of its row.  The first field is read from the line as written or as
\* stripped.
C9_Surname(asWritten) ==
    LET expected(k) == IF Truthy(args_author) THEN args_author
                       ELSE IF asWritten THEN FirstAsWritten(AcceptedLines[k])
                       ELSE FirstAfterStrip(AcceptedLines[k])
    IN /\ pc \in {"esearch", "efetch"} => author_surname = expected(NumSearches)
       /\ \A k \in 1..Len(stdout) :
            /\ Fields(stdout[k])[1] = expected(k)
            /\ XmlTruthy(DocumentOf(k)) =>
                 Fields(stdout[k])[4] =
                     determine_article_type(None, DocumentOf(k), expected(k)).type

C10_WellFormedNeverRaises ==
    xml_data.kind = "xml" =>
        /\ error \notin {"ParseError", "AttributeError"}
        /\ pc \in {"loop", "exit"} =>
             \A a \in Range(get_authors_and_pubtypes(xml_data).authors) : a # None

====
